---- MODULE Spec2Model ----
(***************************************************************************)
(* Model of tradingagents/dataflows/wind_utils.py: the WindProvider        *)
(* adapter (session lifecycle, symbol normalisation, the five fetch        *)
(* operations with their cache pass-through) and the module-level          *)
(* singleton accessor.                                                     *)
(*                                                                         *)
(* Python strings that the code inspects character by character (stock     *)
(* symbols, vendor codes) are sequences of one-character strings.          *)
(***************************************************************************)
EXTENDS Naturals, Sequences, FiniteSets

\* ------------------------------------------------------------------ bounds
\* longest raw symbol handed to _normalize_symbol in SpecNorm
MaxLen == 5

\* ------------------------------------------------------------ string tools
Range(s) == {s[i] : i \in 1..Len(s)}

\* characters raw symbols are drawn from: the letters of the two prefixes,
\* the separator, one digit of every class of the exchange table and "1"
\* for the "any other digit" class
Alphabet == {"s", "h", "z", ".", "0", "3", "6", "8", "1"}

Strings(n) == UNION {[1..k -> Alphabet] : k \in 0..n}

\* str.startswith(prefix)
StartsWith(s, prefix) ==
    /\ Len(s) >= Len(prefix)
    /\ SubSeq(s, 1, Len(prefix)) = prefix

\* str.replace(old, ''): every non-overlapping occurrence of old, scanning
\* left to right, is removed
RECURSIVE StrRemoveAll(_, _)
StrRemoveAll(s, old) ==
    IF Len(s) < Len(old) THEN s
    ELSE IF SubSeq(s, 1, Len(old)) = old
         THEN StrRemoveAll(SubSeq(s, Len(old) + 1, Len(s)), old)
         ELSE <<Head(s)>> \o StrRemoveAll(Tail(s), old)

\* symbol.replace('sh.', '').replace('sz.', '')
PrefixSh == <<"s", "h", ".">>
PrefixSz == <<"s", "z", ".">>

RemovePrefixes(symbol) == StrRemoveAll(StrRemoveAll(symbol, PrefixSh), PrefixSz)

SuffixSH == <<".", "S", "H">>
SuffixSZ == <<".", "S", "Z">>
SuffixBJ == <<".", "B", "J">>

\* mutant of ExchangeSuffix: the Beijing branch is lost
ExchangeSuffixNoBJ(symbol) ==
    IF StartsWith(symbol, <<"6">>) THEN SuffixSH ELSE SuffixSZ

\* the if/elif chain on the leading character
ExchangeSuffix(symbol) ==
    IF StartsWith(symbol, <<"6">>) THEN SuffixSH
    ELSE IF StartsWith(symbol, <<"0">>) \/ StartsWith(symbol, <<"3">>) THEN SuffixSZ
    ELSE IF StartsWith(symbol, <<"8">>) THEN SuffixBJ
    ELSE SuffixSZ

\* WindProvider._normalize_symbol
NormalizeSymbol(original_symbol) ==
    LET symbol == RemovePrefixes(original_symbol)
    IN  IF "." \in Range(symbol) THEN symbol
        ELSE symbol \o ExchangeSuffix(symbol)

VARIABLES
    WIND_AVAILABLE,      \* module flag: "from WindPy import w" succeeded
    CACHE_AVAILABLE,     \* module flag: "from .cache_manager import get_cache" succeeded
    w_has_isconnected,   \* hasattr(w, 'isconnected') of the installed SDK
    heap,                \* the WindProvider objects constructed so far, by identity 1..Len(heap)
    _wind_provider,      \* the module global: 0 is None, else the identity of the instance
    cache,               \* the cache collaborator's store: key -> entry
    alive,               \* the interpreter is running (__del__ has not run yet)
    op,                  \* the operation the last step performed
    arg,                 \* its symbol / keyword argument (<<>> when it takes none)
    pre,                 \* what held on entry to it
    trace,               \* the collaborator calls it issued, in order, with their outcomes
    result,              \* the value it returned
    raised,              \* TRUE iff an exception left it
    uncached,            \* what the same call returns from a provider with caching disabled
    normIn,              \* SpecNorm: the raw symbol
    normOut,             \* SpecNorm: what _normalize_symbol returned
    normDone

vars == <<WIND_AVAILABLE, CACHE_AVAILABLE, w_has_isconnected, heap, _wind_provider,
          cache, alive, op, arg, pre, trace, result, raised, uncached, normIn, normOut, normDone>>

env == <<WIND_AVAILABLE, CACHE_AVAILABLE, w_has_isconnected>>
nvars == <<normIn, normOut, normDone>>

\* ------------------------------------------------------- collaborator calls
Ev(e, o) == [ev |-> e, out |-> o]

\* w.isconnected(): True, False, or an exception
IscOutcomes == {"true", "false", "raise"}
\* w.start(): ErrorCode == 0, ErrorCode != 0, or an exception
StartOutcomes == {"ok", "err", "raise"}
\* w.stop(): returns, or an exception
StopOutcomes == {"ok", "raise"}

\* ------------------------------------------------------ session management
\* mutant of ConnectIfNeeded: a start that answers a non-zero status is tried
\* once more
ConnectIfNeededRetry(connected, isc, st) ==
    IF connected THEN [ret |-> TRUE, connected |-> TRUE, trace |-> <<>>]
    ELSE IF ~WIND_AVAILABLE THEN [ret |-> FALSE, connected |-> FALSE, trace |-> <<>>]
    ELSE IF w_has_isconnected /\ isc = "raise"
         THEN [ret |-> FALSE, connected |-> FALSE, trace |-> <<Ev("isconnected", isc)>>]
    ELSE IF w_has_isconnected /\ isc = "true"
         THEN [ret |-> TRUE, connected |-> TRUE, trace |-> <<Ev("isconnected", isc)>>]
    ELSE LET asked == IF w_has_isconnected THEN <<Ev("isconnected", isc)>> ELSE <<>>
         IN  [ret |-> (st = "ok"), connected |-> (st = "ok"),
              trace |-> asked \o <<Ev("start", st)>>
                        \o (IF st = "err" THEN <<Ev("start", st)>> ELSE <<>>)]

\* WindProvider._connect_if_needed; isc and st are what w.isconnected() and
\* w.start() answer if they are asked.  Returns the return value, the new
\* self.connected and the vendor calls issued.
ConnectIfNeeded(connected, isc, st) ==
    IF connected THEN [ret |-> TRUE, connected |-> TRUE, trace |-> <<>>]
    ELSE IF ~WIND_AVAILABLE THEN [ret |-> FALSE, connected |-> FALSE, trace |-> <<>>]
    ELSE IF w_has_isconnected /\ isc = "raise"
         THEN [ret |-> FALSE, connected |-> FALSE, trace |-> <<Ev("isconnected", isc)>>]
    ELSE IF w_has_isconnected /\ isc = "true"
         THEN [ret |-> TRUE, connected |-> TRUE, trace |-> <<Ev("isconnected", isc)>>]
    ELSE LET asked == IF w_has_isconnected THEN <<Ev("isconnected", isc)>> ELSE <<>>
         IN  [ret |-> (st = "ok"), connected |-> (st = "ok"),
              trace |-> asked \o <<Ev("start", st)>>]

\* mutant of EnsureConnection: a dropped session is reported, not re-opened
EnsureConnectionNoReconnect(connected, isc1, isc2, st) ==
    IF ~connected THEN ConnectIfNeeded(connected, isc2, st)
    ELSE IF WIND_AVAILABLE /\ w_has_isconnected
         THEN IF isc1 = "true"
              THEN [ret |-> TRUE, connected |-> TRUE, trace |-> <<Ev("isconnected", isc1)>>]
              ELSE [ret |-> FALSE, connected |-> FALSE, trace |-> <<Ev("isconnected", isc1)>>]
         ELSE [ret |-> TRUE, connected |-> TRUE, trace |-> <<>>]

\* mutant of EnsureConnection: a set flag is trusted without asking the vendor
EnsureConnectionTrusting(connected, isc1, isc2, st) ==
    IF connected THEN [ret |-> TRUE, connected |-> TRUE, trace |-> <<>>]
    ELSE IF ~WIND_AVAILABLE THEN [ret |-> FALSE, connected |-> FALSE, trace |-> <<>>]
    ELSE IF w_has_isconnected /\ isc2 = "raise"
         THEN [ret |-> FALSE, connected |-> FALSE, trace |-> <<Ev("isconnected", isc2)>>]
    ELSE IF w_has_isconnected /\ isc2 = "true"
         THEN [ret |-> TRUE, connected |-> TRUE, trace |-> <<Ev("isconnected", isc2)>>]
    ELSE LET asked == IF w_has_isconnected THEN <<Ev("isconnected", isc2)>> ELSE <<>>
         IN  [ret |-> (st = "ok"), connected |-> (st = "ok"),
              trace |-> asked \o <<Ev("start", st)>>]

\* WindProvider._ensure_connection; isc1 answers its own liveness query,
\* isc2 and st the ones of _connect_if_needed
EnsureConnection(connected, isc1, isc2, st) ==
    IF ~connected THEN ConnectIfNeeded(connected, isc2, st)
    ELSE IF WIND_AVAILABLE /\ w_has_isconnected
         THEN IF isc1 = "true"
              THEN [ret |-> TRUE, connected |-> TRUE, trace |-> <<Ev("isconnected", isc1)>>]
              ELSE \* reported disconnected, or the query raised: clear and reconnect
                   LET r == ConnectIfNeeded(FALSE, isc2, st)
                   IN  [r EXCEPT !.trace = <<Ev("isconnected", isc1)>> \o r.trace]
         ELSE [ret |-> TRUE, connected |-> TRUE, trace |-> <<>>]

\* mutant of Disconnect: the try/except around w.stop() is missing
DisconnectNoTry(connected, stop) ==
    IF connected /\ WIND_AVAILABLE
    THEN [connected |-> (stop # "ok"), trace |-> <<Ev("stop", stop)>>, raised |-> (stop = "raise")]
    ELSE [connected |-> connected, trace |-> <<>>, raised |-> FALSE]

\* WindProvider.disconnect; stop is what w.stop() does if it is called
Disconnect(connected, stop) ==
    IF connected /\ WIND_AVAILABLE
    THEN IF stop = "ok"
         THEN [connected |-> FALSE, trace |-> <<Ev("stop", stop)>>, raised |-> FALSE]
         ELSE \* except Exception: logged, self.connected keeps its value
              [connected |-> connected, trace |-> <<Ev("stop", stop)>>, raised |-> FALSE]
    ELSE [connected |-> connected, trace |-> <<>>, raised |-> FALSE]

\* WindProvider.__init__(enable_cache=True); get_cache_raises: get_cache() fails.
\* The trace ends with the return of the constructor's _connect_if_needed.
NewProvider(enable_cache, get_cache_raises, isc, st) ==
    LET c == ConnectIfNeeded(FALSE, isc, st)
    IN  [self |-> [connected |-> c.connected,
                   enable_cache |-> (enable_cache /\ CACHE_AVAILABLE /\ ~get_cache_raises)],
         trace |-> c.trace \o <<Ev("connect", IF c.ret THEN "true" ELSE "false")>>]


\* ------------------------------------------------------------------ tables
\* A pandas DataFrame: its column labels and its rows, each row a mapping
\* from column label to cell.  Cells are strings (character sequences).
DataFrame(cols, rows) == [cols |-> cols, rows |-> rows]

\* pd.DataFrame()
EmptyDataFrame == DataFrame({}, <<>>)

\* DataFrame.empty: some axis has length 0
IsEmpty(df) == df.rows = <<>> \/ df.cols = {}

\* what an operation returns: a table, a cached string, a mapping
TableResult(df) == [kind |-> "table", table |-> df]
StrResult == [kind |-> "str"]
DictResult(d) == [kind |-> "dict", dict |-> d]
NoResult == [kind |-> "none"]

\* A vendor answer (WindData): ErrorCode, Data (None, or one sequence per
\* field), Fields, Times; or the call raised.
Raises == [kind |-> "raise"]
WindData(code, hasData, data, fields, times) ==
    [kind |-> "resp", ErrorCode |-> code, hasData |-> hasData, Data |-> data,
     Fields |-> fields, Times |-> times]

\* how a query ended, for the trace
Outcome(wd) ==
    IF wd.kind = "raise" THEN "raise" ELSE IF wd.ErrorCode # 0 THEN "err" ELSE "ok"

\* a vendor query in the trace: which call, for what, and its answer
QEv(call, what, wd) == [ev |-> call, out |-> Outcome(wd), what |-> what, resp |-> wd]

IndexOf(seq, x) == CHOOSE i \in 1..Len(seq) : seq[i] = x

\* df = pd.DataFrame(Data).T ; df.columns = Fields
\* Data holds one sequence per field, so after .T there are Len(Data) columns
\* and one row per observation; assigning the labels raises when their number
\* differs from the number of columns.  pd.DataFrame(None) is 0 x 0.
Reshape(wd) ==
    LET ncols == IF wd.hasData THEN Len(wd.Data) ELSE 0
        nrows == IF ncols = 0 THEN 0 ELSE Len(wd.Data[1])
    IN  IF Len(wd.Fields) # ncols THEN [exc |-> TRUE, df |-> EmptyDataFrame]
        ELSE [exc |-> FALSE,
              df |-> DataFrame(Range(wd.Fields),
                        [i \in 1..nrows |->
                            [f \in Range(wd.Fields) |-> wd.Data[IndexOf(wd.Fields, f)][i]]])]

\* for old_col, new_col in column_mapping.items():
\*     if old_col in df.columns: df[new_col] = df[old_col]
\* (no new label of the tables below is an old label, so the order of the
\* loop does not matter)
AddMapped(df, mapping) ==
    LET present == {m \in mapping : m[1] \in df.cols}
        added == {m[2] : m \in present}
        src(c) == (CHOOSE m \in present : m[2] = c)[1]
    IN  DataFrame(df.cols \cup added,
            [i \in 1..Len(df.rows) |->
                [c \in df.cols \cup added |->
                    IF c \in added THEN df.rows[i][src(c)] ELSE df.rows[i][c]]])


\* s.split('.')[0]
RECURSIVE BeforeDot(_)
BeforeDot(s) ==
    IF s = <<>> \/ Head(s) = "." THEN <<>> ELSE <<Head(s)>> \o BeforeDot(Tail(s))

\* keyword in s (str.contains on a keyword without regex metacharacters)
Contains(s, k) ==
    \E i \in 0..(Len(s) - Len(k)) : SubSeq(s, i + 1, i + Len(k)) = k

\* ------------------------------------------------------------------- cache
\* The cache collaborator (tradingagents/dataflows/cache_manager.py):
\* find(key, maxAgeHours) -> handle | none, load(handle) -> table | none,
\* save(key, table, sourceTag) -> handle.  The adapter reaches an entry only
\* through find, which answers none for an entry older than the window asked
\* for: the store holds the entries find still answers with.
StockListKey == <<"wind_stock_list">>

NoEntry == [present |-> FALSE, data |-> EmptyDataFrame]
Entry(df) == [present |-> TRUE, data |-> df]

FindOutcomes == {"ok", "raise"}
LoadOutcomes == {"ok", "none", "str", "raise"}
SaveOutcomes == {"ok", "raise"}

\* find_cached_stock_data(symbol=key, max_age_hours=...): a handle iff a fresh
\* entry is stored
FindCached(store, key) == store[key].present

\* load_stock_data(handle)
LoadCached(store, key) == store[key].data

\* save_stock_data(symbol=key, data=df, data_source="wind")
SaveCached(store, key, df) == [store EXCEPT ![key] = Entry(df)]


\* ------------------------------------------------------------ get_stock_list
\* what a try block hands to its handler: exc is TRUE when an exception left it
Returned(res, tr, store) == [exc |-> FALSE, result |-> res, trace |-> tr, store |-> store]
Raised(tr, store) == [exc |-> TRUE, result |-> NoResult, trace |-> tr, store |-> store]

\* what a public method hands to its caller
Outcome4(self, b, tr) ==
    [self |-> self, store |-> b.store, result |-> b.result, raised |-> b.exc,
     trace |-> tr \o b.trace]

\* the _ensure_connection call that opens every public method
Ensure(self, conn) == EnsureConnection(self.connected, conn.isc1, conn.isc2, conn.st)
EnsureEv(e) == <<Ev("ensure", IF e.ret THEN "true" ELSE "false")>>

StockListMapping ==
    {<<"WIND_CODE", "ts_code">>, <<"SEC_NAME", "name">>, <<"TRADE_STATUS", "list_status">>,
     <<"IPO_DATE", "list_date">>, <<"PROVINCE", "area">>, <<"SEC_TYPE", "market">>,
     <<"LISTING_BOARD", "industry">>, <<"EXCHANGE", "exchange">>}

SymbolOfRow(row) == BeforeDot(row["ts_code"])

\* stock_list['symbol'] = ..., for every row
AddSymbolColumn(df) ==
    DataFrame(df.cols \cup {"symbol"},
        [i \in 1..Len(df.rows) |->
            [c \in df.cols \cup {"symbol"} |->
                IF c = "symbol" THEN SymbolOfRow(df.rows[i]) ELSE df.rows[i][c]]])

\* the save of a fetched table: its own try/except logs a failure and goes on
SaveFetched(self, store, key, df, save) ==
    IF self.enable_cache
    THEN [trace |-> <<Ev("save", save)>>,
          store |-> IF save = "ok" THEN SaveCached(store, key, df) ELSE store]
    ELSE [trace |-> <<>>, store |-> store]

\* w.wset(...) and what follows it inside the try block
StockListFromVendor(self, store, in, tr) ==
    LET wd == in.wset
        q == tr \o <<QEv("wset", "stock_list", wd)>>
    IN  IF wd.kind = "raise" THEN Raised(q, store)
        ELSE IF wd.ErrorCode # 0 THEN Returned(TableResult(EmptyDataFrame), q, store)
        ELSE LET r == Reshape(wd)
             IN  IF r.exc THEN Raised(q, store)
                 ELSE IF IsEmpty(r.df) THEN Returned(TableResult(EmptyDataFrame), q, store)
                 ELSE LET mapped == AddMapped(r.df, StockListMapping)
                          stock_list == IF "ts_code" \in mapped.cols
                                        THEN AddSymbolColumn(mapped)
                                        ELSE mapped
                          sv == SaveFetched(self, store, StockListKey, stock_list, in.save)
                      IN  Returned(TableResult(stock_list), q \o sv.trace, sv.store)

\* the try block of get_stock_list: the cache is asked first
StockListTry(self, store, in) ==
    IF ~self.enable_cache THEN StockListFromVendor(self, store, in, <<>>)
    ELSE IF in.find = "raise" THEN Raised(<<Ev("find", "raise")>>, store)
    ELSE IF ~FindCached(store, StockListKey)
         THEN StockListFromVendor(self, store, in, <<Ev("find", "miss")>>)
    ELSE LET tr == <<Ev("find", "hit"), Ev("load", in.load)>>
         IN  IF in.load = "raise" THEN Raised(tr, store)
             ELSE IF in.load = "ok" /\ ~IsEmpty(LoadCached(store, StockListKey))
                  THEN Returned(TableResult(LoadCached(store, StockListKey)), tr, store)
             ELSE IF in.load = "str" THEN Returned(StrResult, tr, store)
             ELSE StockListFromVendor(self, store, in, tr)

\* except Exception: return pd.DataFrame()
CatchAsEmptyTable(b) ==
    IF b.exc THEN [b EXCEPT !.exc = FALSE, !.result = TableResult(EmptyDataFrame)] ELSE b

\* mutant of GetStockList: no handler around the body
GetStockListNoCatch(self, store, in) ==
    LET e == Ensure(self, in.conn)
        me == [self EXCEPT !.connected = e.connected]
    IN  IF ~e.ret
        THEN Outcome4(me, Returned(TableResult(EmptyDataFrame), <<>>, store), e.trace \o EnsureEv(e))
        ELSE Outcome4(me, StockListTry(me, store, in), e.trace \o EnsureEv(e))

\* WindProvider.get_stock_list
GetStockList(self, store, in) ==
    LET e == Ensure(self, in.conn)
        me == [self EXCEPT !.connected = e.connected]
    IN  IF ~e.ret
        THEN Outcome4(me, Returned(TableResult(EmptyDataFrame), <<>>, store), e.trace \o EnsureEv(e))
        ELSE Outcome4(me, CatchAsEmptyTable(StockListTry(me, store, in)), e.trace \o EnsureEv(e))

\* ------------------------------------------------------------- search_stocks
\* the try block of search_stocks; in.inner feeds the nested get_stock_list
SearchTry(self, store, in, keyword) ==
    LET g == GetStockList(self, store, in.inner)
        b == [exc |-> g.raised, result |-> g.result, trace |-> g.trace, store |-> g.store]
        Match(row) == \/ Contains(row["name"], keyword)
                      \/ Contains(row["symbol"], keyword)
                      \/ Contains(row["ts_code"], keyword)
    IN  [self |-> g.self,
         b |-> IF g.raised THEN b
               ELSE IF g.result.kind # "table" THEN [b EXCEPT !.exc = TRUE, !.result = NoResult]
               ELSE IF IsEmpty(g.result.table) THEN [b EXCEPT !.result = TableResult(EmptyDataFrame)]
               ELSE IF ~({"name", "symbol", "ts_code"} \subseteq g.result.table.cols)
                    THEN [b EXCEPT !.exc = TRUE, !.result = NoResult]
               ELSE [b EXCEPT !.result = TableResult(
                        DataFrame(g.result.table.cols, SelectSeq(g.result.table.rows, Match)))]]

\* WindProvider.search_stocks
SearchStocks(self, store, in, keyword) ==
    LET e == Ensure(self, in.conn)
        me == [self EXCEPT !.connected = e.connected]
    IN  IF ~e.ret
        THEN Outcome4(me, Returned(TableResult(EmptyDataFrame), <<>>, store), e.trace \o EnsureEv(e))
        ELSE LET t == SearchTry(me, store, in, keyword)
             IN  Outcome4(t.self, CatchAsEmptyTable(t.b), e.trace \o EnsureEv(e))


\* ----------------------------------------------------------- get_stock_daily
DailyMapping ==
    {<<"OPEN", "open">>, <<"HIGH", "high">>, <<"LOW", "low">>, <<"CLOSE", "close">>,
     <<"PRE_CLOSE", "pre_close">>, <<"CHG", "change">>, <<"PCT_CHG", "pct_chg">>,
     <<"VOLUME", "vol">>, <<"AMT", "amount">>}

\* data.index = Times ; rename ; data['ts_code'] = wind_code ; data.reset_index()
DailyTable(df, times, wind_code) ==
    LET mapped == AddMapped(df, DailyMapping)
        cols == mapped.cols \cup {"ts_code", "trade_date"}
    IN  DataFrame(cols,
            [i \in 1..Len(mapped.rows) |->
                [c \in cols |-> IF c = "trade_date" THEN times[i]
                                ELSE IF c = "ts_code" THEN wind_code
                                ELSE mapped.rows[i][c]]])

\* the try block of get_stock_daily (the inner except re-raises)
DailyTry(self, store, in, symbol) ==
    LET wind_code == NormalizeSymbol(symbol)
        wd == in.wsd
        q == <<QEv("wsd", "daily", wd)>>
    IN  IF wd.kind = "raise" THEN Raised(q, store)
        ELSE IF wd.ErrorCode # 0 THEN Returned(TableResult(EmptyDataFrame), q, store)
        ELSE IF ~(wd.hasData /\ Len(wd.Data) > 0)
             THEN Returned(TableResult(EmptyDataFrame), q, store)
        ELSE LET r == Reshape(wd)
             IN  IF r.exc \/ Len(wd.Times) # Len(r.df.rows) THEN Raised(q, store)
                 ELSE LET data == DailyTable(r.df, wd.Times, wind_code)
                          sv == SaveFetched(self, store, symbol, data, in.save)
                      IN  Returned(TableResult(data), q \o sv.trace, sv.store)

\* mutant of GetStockDaily: the answer of _ensure_connection is not looked at
GetStockDailyUnchecked(self, store, in, symbol) ==
    LET e == Ensure(self, in.conn)
        me == [self EXCEPT !.connected = e.connected]
    IN  Outcome4(me, CatchAsEmptyTable(DailyTry(me, store, in, symbol)), e.trace \o EnsureEv(e))

\* WindProvider.get_stock_daily
GetStockDaily(self, store, in, symbol) ==
    LET e == Ensure(self, in.conn)
        me == [self EXCEPT !.connected = e.connected]
    IN  IF ~e.ret
        THEN Outcome4(me, Returned(TableResult(EmptyDataFrame), <<>>, store), e.trace \o EnsureEv(e))
        ELSE Outcome4(me, CatchAsEmptyTable(DailyTry(me, store, in, symbol)), e.trace \o EnsureEv(e))

\* ------------------------------------------------------------ get_stock_info
\* f'股票{symbol}' and '未知'
StockName(symbol) == <<"Stock">> \o symbol
Unknown == <<"Unknown">>

\* {'symbol': symbol, 'name': f'股票{symbol}', 'source': source}
DefaultInfo(symbol, source) ==
    [symbol |-> symbol, name |-> StockName(symbol), source |-> source]

\* row.get(key, default)
Get(row, key, default) == IF key \in DOMAIN row THEN row[key] ELSE default

\* the try block of get_stock_info
InfoTry(store, in, symbol) ==
    LET wind_code == NormalizeSymbol(symbol)
        wd == in.wsd
        q == <<QEv("wsd", "info", wd)>>
        fallback == Returned(DictResult(DefaultInfo(symbol, "wind")), q, store)
    IN  IF wd.kind = "raise" THEN Raised(q, store)
        ELSE IF wd.ErrorCode = 0 /\ wd.hasData
             THEN LET r == Reshape(wd)
                  IN  IF r.exc THEN Raised(q, store)
                      ELSE IF IsEmpty(r.df) THEN fallback
                      ELSE LET row == r.df.rows[1]
                           IN  Returned(DictResult(
                                   [symbol |-> symbol,
                                    code |-> Get(row, "TRADE_CODE", symbol),
                                    name |-> Get(row, "SEC_NAME", StockName(symbol)),
                                    area |-> Get(row, "PROVINCE", Unknown),
                                    industry |-> Get(row, "WICSNAME2024", Unknown),
                                    market |-> Get(row, "MKT", Unknown),
                                    list_date |-> Get(row, "IPO_DATE", Unknown),
                                    source |-> "wind"]), q, store)
        ELSE fallback

\* except Exception: return the default mapping tagged 'wind_error'
CatchAsDefaultInfo(b, symbol) ==
    IF b.exc THEN [b EXCEPT !.exc = FALSE, !.result = DictResult(DefaultInfo(symbol, "wind_error"))]
    ELSE b

\* mutant of GetStockInfo: a fetch whose answer could not be used raises
GetStockInfoRaising(self, store, in, symbol) ==
    LET e == Ensure(self, in.conn)
        me == [self EXCEPT !.connected = e.connected]
    IN  IF ~e.ret
        THEN Outcome4(me, Returned(DictResult(DefaultInfo(symbol, "wind_error")), <<>>, store),
                      e.trace \o EnsureEv(e))
        ELSE Outcome4(me, InfoTry(store, in, symbol), e.trace \o EnsureEv(e))

\* WindProvider.get_stock_info
GetStockInfo(self, store, in, symbol) ==
    LET e == Ensure(self, in.conn)
        me == [self EXCEPT !.connected = e.connected]
    IN  IF ~e.ret
        THEN Outcome4(me, Returned(DictResult(DefaultInfo(symbol, "wind_error")), <<>>, store),
                      e.trace \o EnsureEv(e))
        ELSE Outcome4(me, CatchAsDefaultInfo(InfoTry(store, in, symbol), symbol),
                      e.trace \o EnsureEv(e))

\* -------------------------------------------------------- get_financial_data
\* one statement's try block: the records of the reshaped answer, or []
Statement(wd) ==
    IF wd.kind = "raise" THEN <<>>
    ELSE IF wd.ErrorCode = 0 /\ wd.hasData
         THEN LET r == Reshape(wd) IN IF r.exc THEN <<>> ELSE r.df.rows
    ELSE <<>>

\* mutant of FinancialTry: the statements share one try block, so the first
\* exception ends the fetch
FinancialSharedTry(store, in, symbol) ==
    LET Fails(wd) == wd.kind = "raise" \/ (wd.ErrorCode = 0 /\ wd.hasData /\ Reshape(wd).exc)
        b == QEv("wss", "balance_sheet", in.balance_sheet)
        i == QEv("wss", "income_statement", in.income_statement)
        c == QEv("wss", "cash_flow", in.cash_flow)
    IN  IF Fails(in.balance_sheet) THEN Raised(<<b>>, store)
        ELSE IF Fails(in.income_statement) THEN Raised(<<b, i>>, store)
        ELSE IF Fails(in.cash_flow) THEN Raised(<<b, i, c>>, store)
        ELSE Returned(DictResult([balance_sheet |-> Statement(in.balance_sheet),
                                  income_statement |-> Statement(in.income_statement),
                                  cash_flow |-> Statement(in.cash_flow)]),
                      <<b, i, c>>, store)

\* the outer try block of get_financial_data: three w.wss calls, each in a
\* try block of its own
FinancialTry(store, in, symbol) ==
    LET wind_code == NormalizeSymbol(symbol)
    IN  Returned(DictResult([balance_sheet |-> Statement(in.balance_sheet),
                             income_statement |-> Statement(in.income_statement),
                             cash_flow |-> Statement(in.cash_flow)]),
                 <<QEv("wss", "balance_sheet", in.balance_sheet),
                   QEv("wss", "income_statement", in.income_statement),
                   QEv("wss", "cash_flow", in.cash_flow)>>,
                 store)

\* except Exception: return {}
CatchAsEmptyDict(b) ==
    IF b.exc THEN [b EXCEPT !.exc = FALSE, !.result = DictResult(<<>>)] ELSE b

\* WindProvider.get_financial_data
GetFinancialData(self, store, in, symbol) ==
    LET e == Ensure(self, in.conn)
        me == [self EXCEPT !.connected = e.connected]
    IN  IF ~e.ret
        THEN Outcome4(me, Returned(DictResult(<<>>), <<>>, store), e.trace \o EnsureEv(e))
        ELSE Outcome4(me, CatchAsEmptyDict(FinancialTry(store, in, symbol)), e.trace \o EnsureEv(e))


\* ------------------------------------------------------- what the vendor answers
Digits == <<"6", "0", "3", "8", "1">>
Digit(i) == Digits[((i - 1) % Len(Digits)) + 1]

\* the i-th listed security, and a cell of the i-th observation
WindCode(i) == <<Digit(i), ".", "S", "H">>
Cell(tag, i) == <<tag, Digit(i)>>

CodeColumn(n) == [i \in 1..n |-> WindCode(i)]
Column(tag, n) == [i \in 1..n |-> Cell(tag, i)]

Failure == WindData(1, FALSE, <<>>, <<>>, <<>>)
NoData == WindData(0, FALSE, <<>>, <<>>, <<>>)

\* w.wset("listedsecuritygeneralview", ...)
ListResponses ==
    {Raises, Failure, NoData,
     \* fewer columns than field names
     WindData(0, TRUE, <<CodeColumn(1)>>, <<"WIND_CODE", "SEC_NAME">>, <<>>),
     \* an answer without the code field
     WindData(0, TRUE, <<Column("n", 1)>>, <<"SEC_NAME">>, <<>>)}
    \cup {WindData(0, TRUE, <<CodeColumn(n), Column("n", n)>>, <<"WIND_CODE", "SEC_NAME">>, <<>>)
            : n \in 0..1}

\* w.wsd(codes, "open,high,...", beginTime, endTime, ...)
DailyResponses ==
    {Raises, Failure, NoData,
     WindData(0, TRUE, <<>>, <<>>, <<>>),
     WindData(0, TRUE, <<Column("o", 1)>>, <<"OPEN", "CLOSE">>, Column("d", 1)),
     \* fewer timestamps than observations
     WindData(0, TRUE, <<Column("o", 1), Column("c", 1)>>, <<"OPEN", "CLOSE">>, <<>>)}
    \cup {WindData(0, TRUE, <<Column("o", n), Column("c", n)>>, <<"OPEN", "CLOSE">>, Column("d", n))
            : n \in 0..1}

\* w.wsd(codes, "trade_code,sec_name,...", "2024-01-01", "2024-01-02", "")
InfoFields == <<"TRADE_CODE", "SEC_NAME", "PROVINCE", "WICSNAME2024", "MKT", "IPO_DATE">>
InfoResponses ==
    {Raises, Failure, NoData,
     WindData(0, TRUE, [k \in 1..Len(InfoFields) |-> Column("v", 1)], InfoFields, Column("d", 1)),
     WindData(0, TRUE, [k \in 1..Len(InfoFields) |-> <<>>], InfoFields, <<>>),
     WindData(0, TRUE, <<Column("v", 1), Column("n", 1)>>, <<"TRADE_CODE", "SEC_NAME">>, Column("d", 1)),
     WindData(0, TRUE, <<Column("v", 1)>>, <<"TRADE_CODE", "SEC_NAME">>, Column("d", 1))}

\* w.wss(codes, fields, options)
FinResponses ==
    {Raises, Failure, NoData,
     WindData(0, TRUE, <<Column("t", 1), Column("a", 1)>>, <<"TRADE_CODE", "TOT_ASSETS">>, <<>>),
     WindData(0, TRUE, <<<<>>, <<>>>>, <<"TRADE_CODE", "TOT_ASSETS">>, <<>>),
     WindData(0, TRUE, <<Column("t", 1)>>, <<"TRADE_CODE", "TOT_ASSETS">>, <<>>)}

\* ------------------------------------------------------------------ inputs
\* the symbols and keywords callers pass
Symbols == {<<"6">>, <<"s", "z", ".", "0">>}
Keywords == {<<"6">>, <<"x">>}
CacheKeys == {StockListKey} \cup Symbols

\* One answer per vendor call _ensure_connection may make.  Answers that are
\* never asked for do not change the outcome, so one representative of each
\* distinguishable outcome is kept.
AllConn == [isc1 : IscOutcomes, isc2 : IscOutcomes, st : StartOutcomes]
ConnInputs(connected) ==
    LET out(c) == EnsureConnection(connected, c.isc1, c.isc2, c.st)
    IN  {CHOOSE c \in AllConn : out(c) = o : o \in {out(c) : c \in AllConn}}

ListInputs(connected) ==
    [conn : ConnInputs(connected), find : FindOutcomes, load : LoadOutcomes,
     wset : ListResponses, save : SaveOutcomes]
DailyInputs(connected) ==
    [conn : ConnInputs(connected), wsd : DailyResponses, save : SaveOutcomes]
InfoInputs(connected) == [conn : ConnInputs(connected), wsd : InfoResponses]
FinInputs(connected) ==
    [conn : ConnInputs(connected), balance_sheet : FinResponses,
     income_statement : FinResponses, cash_flow : FinResponses]
NewInputs == [get_cache_raises : BOOLEAN, isc : IscOutcomes, st : StartOutcomes]

\* ------------------------------------------------------------------- state
NoPre == [connected |-> FALSE, enable_cache |-> FALSE, fresh |-> FALSE, data |-> EmptyDataFrame]

\* what holds when a method of self is entered with cache key `key`
PreOf(self, key) ==
    [connected |-> self.connected, enable_cache |-> self.enable_cache,
     fresh |-> FindCached(cache, key),
     data |-> IF FindCached(cache, key) THEN LoadCached(cache, key) ELSE EmptyDataFrame]

Init ==
    /\ WIND_AVAILABLE \in BOOLEAN
    /\ CACHE_AVAILABLE \in BOOLEAN
    /\ w_has_isconnected \in BOOLEAN
    /\ heap = <<>>
    /\ _wind_provider = 0
    /\ cache = [k \in CacheKeys |-> NoEntry]
    /\ alive = TRUE
    /\ op = "idle"
    /\ arg = <<>>
    /\ pre = NoPre
    /\ trace = <<>>
    /\ result = NoResult
    /\ raised = FALSE
    /\ uncached = NoResult
    /\ normIn = <<>>
    /\ normOut = <<>>
    /\ normDone = TRUE

\* the record of the step just taken
Did(name, a, p, tr, res, exc, ref) ==
    /\ op' = name
    /\ arg' = a
    /\ pre' = p
    /\ trace' = tr
    /\ result' = res
    /\ raised' = exc
    /\ uncached' = ref

\* a method of the shared instance ended as `o`
Ended(name, a, key, o, ref) ==
    /\ heap' = [heap EXCEPT ![_wind_provider] = o.self]
    /\ cache' = o.store
    /\ Did(name, a, PreOf(heap[_wind_provider], key), o.trace, o.result, o.raised, ref)
    /\ UNCHANGED <<env, _wind_provider, alive, nvars>>

\* the same, for a method that uses no cache key
PreNoKey(self) ==
    [connected |-> self.connected, enable_cache |-> self.enable_cache,
     fresh |-> FALSE, data |-> EmptyDataFrame]

EndedNoKey(name, a, o) ==
    /\ heap' = [heap EXCEPT ![_wind_provider] = o.self]
    /\ cache' = o.store
    /\ Did(name, a, PreNoKey(heap[_wind_provider]), o.trace, o.result, o.raised, NoResult)
    /\ UNCHANGED <<env, _wind_provider, alive, nvars>>

Uncached(self) == [self EXCEPT !.enable_cache = FALSE]


\* ----------------------------------------------------------------- singleton
RefResult(ref) == [kind |-> "ref", ref |-> ref]

\* mutant of GetWindProvider: the "is None" test is missing
GetWindProviderAlwaysNew(h, global, in) ==
    LET n == NewProvider(TRUE, in.get_cache_raises, in.isc, in.st)
    IN  [heap |-> Append(h, n.self), ref |-> Len(h) + 1,
         trace |-> <<Ev("new", "WindProvider")>> \o n.trace]

\* get_wind_provider(): h is the heap of instances, global is _wind_provider;
\* ref is both the value returned and the new value of the global
GetWindProvider(h, global, in) ==
    IF global = 0
    THEN LET n == NewProvider(TRUE, in.get_cache_raises, in.isc, in.st)
         IN  [heap |-> Append(h, n.self), ref |-> Len(h) + 1,
              trace |-> <<Ev("new", "WindProvider")>> \o n.trace]
    ELSE [heap |-> h, ref |-> global, trace |-> <<>>]

\* ------------------------------------------------------------------ actions
Self == heap[_wind_provider]
Idle == alive /\ op = "idle"
Called == Idle /\ _wind_provider # 0

\* the answers a construction consumes, when there is one
NewInputsFor(global) ==
    IF global = 0 THEN NewInputs
    ELSE {[get_cache_raises |-> FALSE, isc |-> "true", st |-> "ok"]}

GetWindProviderOp ==
    /\ Idle
    /\ \E in \in NewInputsFor(_wind_provider) :
        LET g == GetWindProvider(heap, _wind_provider, in)
        IN  /\ heap' = g.heap
            /\ _wind_provider' = g.ref
            /\ Did("get_wind_provider", <<>>, NoPre, g.trace, RefResult(g.ref), FALSE, NoResult)
    /\ UNCHANGED <<env, cache, alive, nvars>>

\* get_china_stock_data_wind(symbol)
GetChinaStockDataWindOp ==
    /\ Idle
    /\ \E new \in NewInputsFor(_wind_provider), symbol \in Symbols :
        LET g == GetWindProvider(heap, _wind_provider, new)
            me == g.heap[g.ref]
        IN  \E in \in DailyInputs(me.connected) :
                LET o == GetStockDaily(me, cache, in, symbol)
                IN  /\ heap' = [g.heap EXCEPT ![g.ref] = o.self]
                    /\ _wind_provider' = g.ref
                    /\ cache' = o.store
                    /\ Did("get_china_stock_data_wind", symbol, PreOf(me, symbol),
                           g.trace \o o.trace, o.result, o.raised,
                           GetStockDaily(Uncached(me), cache, in, symbol).result)
    /\ UNCHANGED <<env, alive, nvars>>

\* get_china_stock_info_wind(symbol)
GetChinaStockInfoWindOp ==
    /\ Idle
    /\ \E new \in NewInputsFor(_wind_provider), symbol \in Symbols :
        LET g == GetWindProvider(heap, _wind_provider, new)
            me == g.heap[g.ref]
        IN  \E in \in InfoInputs(me.connected) :
                LET o == GetStockInfo(me, cache, in, symbol)
                IN  /\ heap' = [g.heap EXCEPT ![g.ref] = o.self]
                    /\ _wind_provider' = g.ref
                    /\ cache' = o.store
                    /\ Did("get_china_stock_info_wind", symbol, PreNoKey(me),
                           g.trace \o o.trace, o.result, o.raised, NoResult)
    /\ UNCHANGED <<env, alive, nvars>>

GetStockListOp ==
    /\ Called
    /\ \E in \in ListInputs(Self.connected) :
        Ended("get_stock_list", <<>>, StockListKey, GetStockList(Self, cache, in),
              GetStockList(Uncached(Self), cache, in).result)

GetStockDailyOp ==
    /\ Called
    /\ \E symbol \in Symbols : \E in \in DailyInputs(Self.connected) :
        Ended("get_stock_daily", symbol, symbol, GetStockDaily(Self, cache, in, symbol),
              GetStockDaily(Uncached(Self), cache, in, symbol).result)

GetStockInfoOp ==
    /\ Called
    /\ \E symbol \in Symbols : \E in \in InfoInputs(Self.connected) :
        EndedNoKey("get_stock_info", symbol, GetStockInfo(Self, cache, in, symbol))

GetFinancialDataOp ==
    /\ Called
    /\ \E symbol \in Symbols : \E in \in FinInputs(Self.connected) :
        EndedNoKey("get_financial_data", symbol, GetFinancialData(Self, cache, in, symbol))

SearchStocksOp ==
    /\ Called
    /\ \E keyword \in Keywords : \E conn \in ConnInputs(Self.connected) :
        LET e == Ensure(Self, conn)
        IN  \E inner \in ListInputs(e.connected) :
                Ended("search_stocks", keyword, StockListKey,
                      SearchStocks(Self, cache, [conn |-> conn, inner |-> inner], keyword),
                      NoResult)

DisconnectOp ==
    /\ Called
    /\ \E stop \in StopOutcomes :
        LET d == Disconnect(Self.connected, stop)
        IN  /\ heap' = [heap EXCEPT ![_wind_provider].connected = d.connected]
            /\ Did("disconnect", <<>>, PreNoKey(Self), d.trace, NoResult, d.raised, NoResult)
    /\ UNCHANGED <<env, _wind_provider, cache, alive, nvars>>

\* WindProvider.__del__, run when the interpreter releases the instance
Del ==
    /\ Called
    /\ \E stop \in StopOutcomes :
        LET d == Disconnect(Self.connected, stop)
        IN  /\ heap' = [heap EXCEPT ![_wind_provider].connected = d.connected]
            /\ Did("__del__", <<>>, PreNoKey(Self), d.trace, NoResult, d.raised, NoResult)
    /\ alive' = FALSE
    /\ UNCHANGED <<env, _wind_provider, cache, nvars>>

\* time passes: a cache entry grows older than the freshness window
CacheExpire ==
    /\ alive /\ op = "idle"
    /\ \E k \in CacheKeys :
        /\ cache[k].present
        /\ cache' = [cache EXCEPT ![k] = NoEntry]
    /\ UNCHANGED <<env, heap, _wind_provider, alive, nvars, op, arg, pre, trace, result,
                   raised, uncached>>

\* the caller has taken the outcome of its call and goes on
Observed ==
    /\ op # "idle"
    /\ Did("idle", <<>>, NoPre, <<>>, NoResult, FALSE, NoResult)
    /\ UNCHANGED <<env, heap, _wind_provider, cache, alive, nvars>>

Next ==
    \/ GetWindProviderOp
    \/ GetChinaStockDataWindOp
    \/ GetChinaStockInfoWindOp
    \/ GetStockListOp
    \/ GetStockDailyOp
    \/ GetStockInfoOp
    \/ GetFinancialDataOp
    \/ SearchStocksOp
    \/ DisconnectOp
    \/ Del
    \/ CacheExpire
    \/ Observed

Spec == Init /\ [][Next]_vars

\* ------------------------------------------- _normalize_symbol on its own
InitNorm ==
    /\ WIND_AVAILABLE = TRUE
    /\ CACHE_AVAILABLE = TRUE
    /\ w_has_isconnected = TRUE
    /\ heap = <<>>
    /\ _wind_provider = 0
    /\ cache = [k \in CacheKeys |-> NoEntry]
    /\ alive = TRUE
    /\ op = "idle"
    /\ arg = <<>>
    /\ pre = NoPre
    /\ trace = <<>>
    /\ result = NoResult
    /\ raised = FALSE
    /\ uncached = NoResult
    /\ normIn \in Strings(MaxLen)
    /\ normOut = <<>>
    /\ normDone = FALSE

Normalize ==
    /\ ~normDone
    /\ normOut' = NormalizeSymbol(normIn)
    /\ normDone' = TRUE
    /\ UNCHANGED <<normIn, env, heap, _wind_provider, cache, alive, op, arg, pre, trace,
                   result, raised, uncached>>

NextNorm == Normalize

SpecNorm == InitNorm /\ [][NextNorm]_vars

\* ====================================================================== claims
QueryCalls == {"wset", "wsd", "wss"}
TableOps == {"get_stock_list", "get_stock_daily", "search_stocks", "get_china_stock_data_wind"}
InfoOps == {"get_stock_info", "get_china_stock_info_wind"}
FetchOps == TableOps \cup InfoOps \cup {"get_financial_data"}

Queries == {i \in 1..Len(trace) : trace[i].ev \in QueryCalls}
Ensures == {i \in 1..Len(trace) : trace[i].ev = "ensure"}
EnsureFailed == \E j \in Ensures : trace[j].out = "false"
\* every _ensure_connection of the operation answered true, and there was one
SessionLive == Ensures # {} /\ \A j \in Ensures : trace[j].out = "true"

ReturnsEmptyTable == result.kind = "table" /\ IsEmpty(result.table)
\* a mapping whose name is the placeholder made from the symbol
ReturnsPlaceholder ==
    /\ result.kind = "dict"
    /\ {"symbol", "name", "source"} \subseteq DOMAIN result.dict
    /\ result.dict["symbol"] = arg
    /\ result.dict["name"] = StockName(arg)

\* the empty/default value of the operation just performed
ReturnsDefault ==
    /\ op \in TableOps => result = TableResult(EmptyDataFrame)
    /\ op \in InfoOps => ReturnsPlaceholder
    /\ op = "get_financial_data" => result = DictResult(<<>>)

\* C1: in every fetch operation a vendor query (wset / wsd / wss) is issued
\* only after an _ensure_connection of that operation answered true; when
\* _ensure_connection answers false the operation issues no vendor query and
\* returns its empty/default value without raising.
C1_EnsureBeforeQuery ==
    op \in FetchOps =>
        /\ \A i \in Queries :
              /\ \E j \in Ensures : j < i /\ trace[j].out = "true"
              /\ \A j \in Ensures : j < i => trace[j].out = "true"
        /\ EnsureFailed => Queries = {} /\ ~raised /\ ReturnsDefault

C1_Witness ==
    /\ op = "get_financial_data"
    /\ EnsureFailed
    /\ pre.connected
    /\ result = DictResult(<<>>)

\* the answer of query event e could not be reshaped
ReshapeRaises(e) ==
    /\ e.out = "ok"
    /\ \/ Reshape(e.resp).exc
       \/ /\ e.what = "daily"
          /\ e.resp.hasData /\ Len(e.resp.Data) > 0
          /\ Len(e.resp.Times) # Len(e.resp.Data[1])

QueryFailed(e) == e.out \in {"raise", "err"} \/ ReshapeRaises(e)

\* C2: with a live session, when a vendor query answers a non-zero status or
\* raises, or reshaping its answer raises, nothing propagates to the caller:
\* the table operations return an empty table, get_stock_info its placeholder
\* mapping, get_financial_data an empty sequence for the statement affected.
C2_VendorFailureContained ==
    (op \in FetchOps /\ SessionLive) =>
        \A i \in Queries :
            QueryFailed(trace[i]) =>
                /\ ~raised
                /\ op \in TableOps => ReturnsEmptyTable
                /\ op \in InfoOps => ReturnsPlaceholder
                /\ op = "get_financial_data" =>
                      /\ result.kind = "dict"
                      /\ trace[i].what \in DOMAIN result.dict
                      /\ result.dict[trace[i].what] = <<>>

C2_Witness ==
    /\ op = "search_stocks"
    /\ SessionLive
    /\ \E i \in Queries : ReshapeRaises(trace[i])
    /\ ReturnsEmptyTable
    /\ ~raised

InfoKeys == {"symbol", "code", "name", "area", "industry", "market", "list_date", "source"}

\* get_stock_info found no session, or its query raised or answered a
\* non-zero status
InfoFailed ==
    /\ op \in InfoOps
    /\ \/ EnsureFailed
       \/ \E i \in Queries : trace[i].out \in {"raise", "err"}

\* C3 as stated: on disconnection or a remote error get_stock_info returns a
\* mapping with all eight keys of the successful answer, each a placeholder,
\* and never raises.
C3_AsStated ==
    InfoFailed => ~raised /\ result.kind = "dict" /\ DOMAIN result.dict = InfoKeys

\* C3 amended: on disconnection or a remote error get_stock_info never raises
\* and returns a mapping with exactly the keys symbol, name and source: the
\* symbol as given, the placeholder name made from it, and source 'wind' after
\* a non-zero status, 'wind_error' after disconnection or an exception.
C3_DefaultInfoOnFailure ==
    InfoFailed =>
        /\ ~raised
        /\ ReturnsPlaceholder
        /\ DOMAIN result.dict = {"symbol", "name", "source"}
        /\ result.dict["source"] =
              IF \E i \in Queries : trace[i].out = "err" THEN "wind" ELSE "wind_error"

C3_Witness ==
    /\ op = "get_stock_info"
    /\ \E i \in Queries : trace[i].out = "raise"
    /\ result = DictResult(DefaultInfo(arg, "wind_error"))

Statements == <<"balance_sheet", "income_statement", "cash_flow">>

\* a statement's fetch failed: the call raised, answered a non-zero status,
\* carried no data (none, or no observation), or could not be reshaped
StatementFailed(wd) ==
    \/ wd.kind = "raise"
    \/ wd.ErrorCode # 0
    \/ ~wd.hasData
    \/ Len(wd.Data) = 0
    \/ Len(wd.Data[1]) = 0
    \/ Len(wd.Fields) # Len(wd.Data)

\* C4: with a live session get_financial_data asks for the three statements in
\* the order balance_sheet, income_statement, cash_flow whatever the earlier
\* ones did; the snapshot has exactly these three keys, a failed statement is
\* an empty sequence and a successful one a non-empty sequence.
C4_StatementsIndependent ==
    (op = "get_financial_data" /\ SessionLive) =>
        /\ ~raised
        /\ result.kind = "dict"
        /\ DOMAIN result.dict = Range(Statements)
        /\ Cardinality(Queries) = Len(Statements)
        /\ \A k \in 1..Len(Statements) :
              LET e == trace[Len(trace) - Len(Statements) + k]
              IN  /\ e.ev = "wss"
                  /\ e.what = Statements[k]
                  /\ StatementFailed(e.resp) <=> result.dict[Statements[k]] = <<>>

C4_Witness ==
    /\ op = "get_financial_data"
    /\ SessionLive
    /\ Len(trace) >= Len(Statements)
    /\ trace[Len(trace) - 2].out = "raise"
    /\ trace[Len(trace) - 1].out = "ok"
    /\ result.dict["balance_sheet"] = <<>>
    /\ result.dict["income_statement"] # <<>>
    /\ result.dict["cash_flow"] # <<>>

CacheCalls == {i \in 1..Len(trace) : trace[i].ev \in {"find", "load", "save"}}
\* a call of the cache collaborator raised during the operation
CacheRaised == \E i \in CacheCalls : trace[i].out = "raise"
\* the cache collaborator did what it is there for: find answered with the
\* handle of the entry and load with its table
CacheServed == \A i \in CacheCalls : trace[i].out \in {"hit", "ok"}

\* C5 as stated: for get_stock_list and get_stock_daily alike, once a fetch
\* has saved its table under the key, a second call with the same key within
\* the freshness window returns a table equal to the saved one and issues no
\* vendor query.
C5_AsStated ==
    ( /\ op \in {"get_stock_list", "get_stock_daily"}
      /\ SessionLive
      /\ pre.enable_cache /\ pre.fresh /\ ~IsEmpty(pre.data)
      /\ CacheServed ) =>
        /\ result = TableResult(pre.data)
        /\ Queries = {}

\* the half of C5 that is about get_stock_list alone
C5_StockListRoundTrip ==
    ( /\ op = "get_stock_list"
      /\ SessionLive
      /\ pre.enable_cache /\ pre.fresh /\ ~IsEmpty(pre.data)
      /\ CacheServed ) =>
        /\ result = TableResult(pre.data)
        /\ Queries = {}

\* C6 as stated: an exception of the cache collaborator (find, load or save)
\* during get_stock_list or get_stock_daily neither reaches the caller nor
\* changes the outcome: the operation returns what it returns from the vendor
\* with caching disabled.
C6_AsStated ==
    ( /\ op \in {"get_stock_list", "get_stock_daily"}
      /\ SessionLive
      /\ CacheRaised ) =>
        /\ ~raised
        /\ result = uncached

\* the half of C6 that is about save
C6_SaveFailureHarmless ==
    ( /\ op \in {"get_stock_list", "get_stock_daily"}
      /\ SessionLive
      /\ \E i \in CacheCalls : trace[i].ev = "save" /\ trace[i].out = "raise" ) =>
        /\ ~raised
        /\ result = uncached

\* what is left of s after one leading sh. or sz. is taken off
Stripped(s) ==
    IF StartsWith(s, PrefixSh) \/ StartsWith(s, PrefixSz) THEN SubSeq(s, 4, Len(s)) ELSE s

IsBareCode(s) == s # <<>> /\ Range(s) \subseteq Range(Digits)

ClaimedSuffix(d) ==
    CASE d = "6" -> <<".", "S", "H">>
      [] d \in {"0", "3"} -> <<".", "S", "Z">>
      [] d = "8" -> <<".", "B", "J">>
      [] OTHER -> <<".", "S", "Z">>

\* C7: for a bare numeric code, with or without one leading sh. or sz.,
\* _normalize_symbol returns the bare code followed by the suffix its first
\* digit selects: 6 .SH, 0 or 3 .SZ, 8 .BJ, any other digit .SZ.
C7_SuffixByLeadingDigit ==
    (normDone /\ IsBareCode(Stripped(normIn))) =>
        normOut = Stripped(normIn) \o ClaimedSuffix(Head(Stripped(normIn)))

C7_Witness ==
    /\ normDone
    /\ StartsWith(normIn, PrefixSz)
    /\ IsBareCode(Stripped(normIn))
    /\ Head(Stripped(normIn)) = "8"
    /\ normOut = Stripped(normIn) \o <<".", "B", "J">>

\* C8 as stated: sh. / sz. is removed only at the start of the string, and
\* when what remains contains a '.', exactly that remainder is returned; an
\* already-qualified input without such a prefix is returned unchanged.
C8_AsStated ==
    (normDone /\ "." \in Range(Stripped(normIn))) => normOut = Stripped(normIn)

\* C9: disconnect (also run by __del__) never raises; when the adapter is
\* connected it calls the vendor's stop and after a stop that succeeded the
\* connected flag is false, an exception of stop being swallowed; when it is
\* not connected it calls nothing and leaves the flag as it was.
C9_DisconnectNeverRaises ==
    op \in {"disconnect", "__del__"} =>
        /\ ~raised
        /\ pre.connected =>
              /\ Len(trace) = 1
              /\ trace[1].ev = "stop"
              /\ trace[1].out = "ok" => ~Self.connected
        /\ ~pre.connected => trace = <<>> /\ ~Self.connected

C9_Witness ==
    /\ op = "__del__"
    /\ pre.connected
    /\ trace = <<Ev("stop", "raise")>>
    /\ ~raised

\* C10: over any sequence of calls of get_wind_provider, directly or through
\* get_china_stock_data_wind / get_china_stock_info_wind, at most one
\* WindProvider is constructed, and every call hands out that instance, also
\* when its first connection attempt failed or it was disconnected since.
C10_SingleProvider ==
    /\ Len(heap) <= 1
    /\ _wind_provider = Len(heap)
    /\ op = "get_wind_provider" => result = RefResult(1)
    /\ op \in {"get_china_stock_data_wind", "get_china_stock_info_wind"} => _wind_provider = 1

C10_Witness ==
    /\ op = "get_wind_provider"
    /\ WIND_AVAILABLE
    /\ \A i \in 1..Len(trace) : trace[i].ev # "new"
    /\ result = RefResult(1)
    /\ Len(heap) = 1
    /\ ~heap[1].connected

\* ------------------------------------------------------- session establishment
\* the vendor calls of session management
ConnCalls == {"isconnected", "start"}
\* the returns of _connect_if_needed in the constructor
Connects == {i \in 1..Len(trace) : trace[i].ev = "connect"}
\* the vendor calls of the _ensure_connection (or constructor's
\* _connect_if_needed) whose return is event j: the session events right
\* before it
CallStart(j) ==
    LET others == {i \in 1..(j - 1) : trace[i].ev \notin ConnCalls}
    IN  IF others = {} THEN 1 ELSE 1 + CHOOSE i \in others : \A k \in others : k <= i
CallOf(j) == CallStart(j)..(j - 1)
StartsOf(j) == {i \in CallOf(j) : trace[i].ev = "start"}
ReportedLive(j) == \E i \in CallOf(j) : trace[i] = Ev("isconnected", "true")
\* a live session was confirmed during the call
Confirmed(j) == ReportedLive(j) \/ \E i \in CallOf(j) : trace[i] = Ev("start", "ok")
\* self.connected when the _ensure_connection that returns at j was entered
EnteredConnected(j) ==
    LET earlier == {i \in Ensures : i < j}
    IN  IF earlier = {} THEN pre.connected
        ELSE trace[CHOOSE i \in earlier : \A k \in earlier : k <= i].out = "true"
\* the vendor object offers a liveness query
HasLivenessQuery == WIND_AVAILABLE /\ w_has_isconnected

\* C11 as stated: _ensure_connection returns true exactly when, during that
\* call, the liveness query reported a live session or a start-session call
\* answered status 0.
C11_AsStated ==
    \A j \in Ensures : trace[j].out = "true" <=> Confirmed(j)

\* C11, amended: _ensure_connection returns true exactly when a live session
\* was confirmed during the call (liveness query true, or start status 0), or
\* the connected flag was already set and the vendor object offers no
\* liveness query, in which case no vendor call is made; otherwise false.
C11_TrueOnlyIfConfirmed ==
    \A j \in Ensures :
        /\ trace[j].out = "true" <=>
              Confirmed(j) \/ (EnteredConnected(j) /\ ~HasLivenessQuery)
        /\ EnteredConnected(j) /\ ~HasLivenessQuery => CallOf(j) = {}
        /\ ~WIND_AVAILABLE /\ ~EnteredConnected(j) => trace[j].out = "false"

C11_Witness ==
    /\ op = "get_stock_info"
    /\ pre.connected
    /\ Len(trace) >= 4
    /\ trace[1] = Ev("isconnected", "raise")
    /\ trace[2] = Ev("isconnected", "false")
    /\ trace[3] = Ev("start", "err")
    /\ trace[4] = Ev("ensure", "false")

\* C12: no call of _connect_if_needed or _ensure_connection issues a
\* start-session call when the adapter is connected (the flag is set and no
\* liveness query of the call contradicts it) or a liveness query of the call
\* reports a live session; every call issues at most one start-session call.
C12_NoRedundantStart ==
    /\ \A j \in Ensures \cup Connects :
          /\ ReportedLive(j) => StartsOf(j) = {}
          /\ Cardinality(StartsOf(j)) <= 1
    /\ \A j \in Ensures :
          EnteredConnected(j)
            /\ (\A i \in CallOf(j) : trace[i].ev = "isconnected" => trace[i].out = "true")
          => StartsOf(j) = {}

C12_Witness ==
    /\ op = "search_stocks"
    /\ ~pre.connected
    /\ Len(trace) >= 5
    /\ trace[1] = Ev("isconnected", "false")
    /\ trace[2] = Ev("start", "ok")
    /\ trace[3] = Ev("ensure", "true")
    /\ trace[4] = Ev("isconnected", "true")
    /\ trace[5] = Ev("ensure", "true")

\* --------------------------------------------------------- reconnect after a drop
FirstEnsure == CHOOSE j \in Ensures : \A k \in Ensures : j <= k
LastEnsure == CHOOSE j \in Ensures : \A k \in Ensures : k <= j
\* the operation was entered with the flag set and the first liveness query
\* of its _ensure_connection reported disconnected or raised
Dropped ==
    /\ op \in FetchOps
    /\ Ensures # {}
    /\ pre.connected
    /\ CallOf(FirstEnsure) # {}
    /\ trace[CallStart(FirstEnsure)] \in {Ev("isconnected", "false"), Ev("isconnected", "raise")}
Reestablished == Dropped /\ trace[FirstEnsure].out = "true"
\* what the operation did after its first _ensure_connection returned
AfterEnsure(tr) ==
    LET es == {i \in 1..Len(tr) : tr[i].ev = "ensure"}
        j == CHOOSE i \in es : \A k \in es : i <= k
    IN  IF es = {} THEN <<>> ELSE SubSeq(tr, j + 1, Len(tr))

\* the answers of a session that is live and stays so
Live == [isc1 |-> "true", isc2 |-> "true", st |-> "ok"]
\* the answers an operation consumed, read back from its trace
IsConnCall(e) == e.ev \in ConnCalls
OutOf(tr, name, default) ==
    LET is == {i \in 1..Len(tr) : tr[i].ev = name}
    IN  IF is = {} THEN default ELSE tr[CHOOSE i \in is : \A k \in is : i <= k].out
RespOf(tr, what, default) ==
    LET is == {i \in 1..Len(tr) : tr[i].ev \in QueryCalls /\ tr[i].what = what}
    IN  IF is = {} THEN default ELSE tr[CHOOSE i \in is : TRUE].resp
\* the answers given to the _ensure_connection of a provider whose flag is set
ConnOf(tr) ==
    LET cs == SelectSeq(tr, IsConnCall)
    IN  [isc1 |-> IF Len(cs) >= 1 THEN cs[1].out ELSE "true",
         isc2 |-> IF Len(cs) >= 2 /\ cs[2].ev = "isconnected" THEN cs[2].out ELSE "false",
         st |-> OutOf(cs, "start", "ok")]
ListAnswers(tr, conn) ==
    [conn |-> conn,
     find |-> IF OutOf(tr, "find", "miss") = "raise" THEN "raise" ELSE "ok",
     load |-> OutOf(tr, "load", "ok"),
     wset |-> RespOf(tr, "stock_list", Failure),
     save |-> OutOf(tr, "save", "ok")]

\* operation `name` run on a provider whose session never dropped, given the
\* answers that the run recorded in tr received after its _ensure_connection
Undropped(name, a, me, store, tr) ==
    LET rest == AfterEnsure(tr)
    IN  IF name = "get_stock_list"
        THEN GetStockList(me, store, ListAnswers(rest, Live))
        ELSE IF name = "search_stocks"
        THEN SearchStocks(me, store,
                 [conn |-> Live, inner |-> ListAnswers(rest, ConnOf(rest))], a)
        ELSE IF name \in {"get_stock_daily", "get_china_stock_data_wind"}
        THEN GetStockDaily(me, store,
                 [conn |-> Live, wsd |-> RespOf(rest, "daily", Failure),
                  save |-> OutOf(rest, "save", "ok")], a)
        ELSE IF name \in InfoOps
        THEN GetStockInfo(me, store, [conn |-> Live, wsd |-> RespOf(rest, "info", Failure)], a)
        ELSE GetFinancialData(me, store,
                 [conn |-> Live,
                  balance_sheet |-> RespOf(rest, "balance_sheet", Failure),
                  income_statement |-> RespOf(rest, "income_statement", Failure),
                  cash_flow |-> RespOf(rest, "cash_flow", Failure)], a)

\* an outcome, with the trace cut down to what followed _ensure_connection
SinceEnsure(o) == [o EXCEPT !.trace = AfterEnsure(o.trace)]

\* the state after an operation that met a dropped session
DropHandled ==
    Dropped =>
        \* re-establishment is attempted: _connect_if_needed asks the vendor
        \* again, and opens a session unless the vendor now reports one
        /\ Cardinality(CallOf(FirstEnsure)) >= 2
        /\ trace[CallStart(FirstEnsure) + 1].ev = "isconnected"
        /\ trace[CallStart(FirstEnsure) + 1].out = "false" => StartsOf(FirstEnsure) # {}
        /\ \A i \in StartsOf(FirstEnsure) :
              trace[FirstEnsure].out = "true" <=> trace[i].out = "ok"
        \* the flag is what the last _ensure_connection found
        /\ Self.connected <=> trace[LastEnsure].out = "true"
        \* re-establishment failed: flag cleared, default result, no query
        /\ trace[FirstEnsure].out = "false" =>
              /\ ~Self.connected
              /\ Queries = {}
              /\ ~raised
              /\ ReturnsDefault

\* C13: when an operation finds the connected flag set but the liveness query
\* reports disconnected or raises, _ensure_connection clears the flag and
\* attempts re-establishment; if that succeeds the operation goes on and ends
\* (result, exception, cache, flag) exactly as the same operation does on a
\* session that never dropped, and if it fails the flag stays false and the
\* operation returns its empty/default result.
C13_ReconnectAfterDrop ==
    [][/\ DropHandled'
       /\ Reestablished' =>
            SinceEnsure(Undropped(op', arg', [connected |-> TRUE,
                                             enable_cache |-> pre'.enable_cache], cache, trace'))
            = [self |-> heap'[_wind_provider'], store |-> cache', result |-> result',
               raised |-> raised', trace |-> AfterEnsure(trace')]]_vars

C13_Witness ==
    /\ op = "get_stock_list"
    /\ Reestablished
    /\ StartsOf(FirstEnsure) # {}
    /\ result.kind = "table"
    /\ ~IsEmpty(result.table)
    /\ Queries # {}
    /\ Self.connected
====
